---- MODULE Spec2Model ----
(***************************************************************************)
(* URL shortener core of cmd/api/handlers.go: creation with dedup lookup   *)
(* and collision retry, resolution with expiry and analytics, edit and     *)
(* delete.  The model follows the handlers of the current revision of the  *)
(* file (CreateShortURLHandler .. ExpandURLHandler, lines 302-571), which  *)
(* redefine the handlers of the earlier revision kept at lines 20-126.     *)
(*                                                                         *)
(* Each request is a process.  One action is one call to the store         *)
(* together with the handler code that runs up to the next store call or   *)
(* up to the response, so that requests interleave exactly at the store    *)
(* calls.  The stores (package data) are not part of handlers.go; their    *)
(* operations are modelled from the interface the specification gives.     *)
(***************************************************************************)
EXTENDS Integers, Sequences, FiniteSets, TLC

VARIABLES
    store,      \* URL record store: the set of rows
    analytics,  \* analytics store: url_id -> number of entries
    nextId,     \* next row id the URL store assigns
    now,        \* wall clock, in hours
    pc,         \* per request slot: position in its handler
    req,        \* per request slot: the decoded request
    loc,        \* per request slot: the handler's local variables
    resp        \* per request slot: the response written

vars == <<store, analytics, nextId, now, pc, req, loc, resp>>

----------------------------------------------------------------------------
(* Bounds *)

MaxId == 2          \* rows the URL store ever assigns
MaxEntries == 1     \* analytics entries kept per mapping

Procs == {"r1", "r2"}

----------------------------------------------------------------------------
(* Program constants *)

TTL == 6                        \* url.Modified.Add(6 * time.Hour)
MaxTriesForInsertion == 3       \* maxTriesForInsertion := 3
StatusPermanentRedirect == 308
StatusTemporaryRedirect == 307
AnonymousUserID == 0            \* data.AnonymousUser.ID

----------------------------------------------------------------------------
(* Values *)

Users == {AnonymousUserID, 1}
Codes == {"c1", "c2"}           \* short codes: the same alphabet for
                                \* generated and caller-supplied ones
Hosts == {"a.com"}
Schemes == {"", "http://"}
\* a URL string is <<scheme, rest>>; "" as scheme is a URL written without one
LongURLs == Schemes \X Hosts
\* the instants at which the clock is read
Times == {0, TTL, TTL + 1}
EmptyString == <<"", "">>
Redirects == {"", "temporary", "permanent"}

NoURL == [id |-> 0, long |-> EmptyString, code |-> "", redirect |-> 0,
          owner |-> -1, modified |-> 0]
NoInput == [op |-> "", owner |-> -1, long |-> EmptyString, short |-> "",
            redirect |-> ""]
NoResp == [status |-> "", err |-> "", url |-> NoURL]
\* what a follow-up request remembers of the request answered just before
NoPrev == [req |-> NoInput, resp |-> NoResp, single |-> FALSE,
           stale |-> FALSE]
\* url, retriesLeft: the handler's variables.  The rest is the history of
\* the request, read by the properties only: the Insert calls made, the
\* code given to the last of them, the calls refused as duplicates, the
\* analytics Insert calls made, whether an analytics call failed, the time
\* read by the expiry test, the request answered just before; whether a
\* call of the URL store returned an error other than a duplicate, whether
\* the request changed the URL store, whether a record like the one in hand
\* was inserted between the lookup and the first Insert, whether an edit
\* supplies nothing new, whether the record was past its TTL when the
\* request came to update it
NoLoc == [url |-> NoURL, retriesLeft |-> 0, attempts |-> 0, tried |-> "",
          colls |-> 0, entries |-> 0, failed |-> FALSE, time |-> 0,
          prev |-> NoPrev, storeFailed |-> FALSE, wrote |-> FALSE,
          raced |-> FALSE, noop |-> FALSE, stale |-> FALSE]

----------------------------------------------------------------------------
(* Helpers of package main that handlers.go calls *)

\* addHTTPPrefix: a URL without a scheme gets "http://"
addHTTPPrefix(u) == IF u[1] = "" THEN <<"http://", u[2]>> ELSE u

\* getRedirectCode, and the same decision inlined at lines 346-349
getRedirectCode(r) ==
    IF r = "temporary" THEN StatusTemporaryRedirect ELSE StatusPermanentRedirect

----------------------------------------------------------------------------
(* URL record store (data.URLModel) *)

CodesInStore == {u.code : u \in store}

\* GetByShort: the rows with this code (one at most)
GetByShort(code) == {u \in store : u.code = code}

\* GetByLongURL(long, redirect, userID): the rows the lookup may return
GetByLongURL(long, redirect, owner) ==
    {u \in store : u.long = long /\ u.redirect = redirect /\ u.owner = owner}

\* (a store without the unique constraint on short_code)
InsertDuplicateUnchecked(u) == FALSE

\* Insert is refused with ErrDuplicateEntry when the code is taken
InsertDuplicate(u) == u.code \in CodesInStore

\* Insert assigns the row id
Insert(u) == store \cup {[u EXCEPT !.id = nextId]}

\* Update writes the row with u's id; the unique constraint on short_code
\* refuses it when another row holds the code
UpdateConflict(u) == \E v \in store : v.id # u.id /\ v.code = u.code

Update(u) == {v \in store : v.id # u.id} \cup
             (IF \E v \in store : v.id = u.id THEN {u} ELSE {})

\* DeleteByShort
DeleteByShort(code) == {u \in store : u.code # code}

----------------------------------------------------------------------------
(* Analytics store (data.AnalyticsModel) *)

AnalyticsInsert(id) == [analytics EXCEPT ![id] = @ + 1]

DeleteByURLID(id) == [analytics EXCEPT ![id] = 0]

----------------------------------------------------------------------------
(* data.NewURL and url.Reshorten *)

\* NewURL(long, short, redirect, userID) with the code already decided:
\* the supplied one, or a generated candidate when short is empty
NewURL(long, code, redirect, owner) ==
    [id |-> 0, long |-> long, code |-> code, redirect |-> redirect,
     owner |-> owner, modified |-> now]

\* Reshorten replaces the code by a fresh candidate
Reshorten(u, code) == [u EXCEPT !.code = code]

----------------------------------------------------------------------------
(* Request bookkeeping *)

InFlight(p) == pc[p] \notin {"idle", "done"}

\* a response just written is looked at before anything else happens: the
\* slot is released, or its client sends a follow-up request at once
Quiet == \A p \in Procs : pc[p] # "done"

Overlaps(p) == \E q \in Procs \ {p} : InFlight(q)

\* the stored record with the id of u is past its TTL
Stale(u) == \E v \in store : v.id = u.id /\ v.modified + TTL < now

SameTuple(u, st) ==
    {v \in st : v.long = u.long /\ v.redirect = u.redirect /\ v.owner = u.owner}

\* the follow-ups to a request that succeeded: the same request again, or
\* the resolution of the code the request was about
FollowUps(p) ==
    IF resp[p].status \notin {"OK", "Created", "Accepted", "NoContent"} THEN {}
    ELSE {r \in {req[p]} : r.op = "create"} \cup
         {[NoInput EXCEPT !.op = "resolve", !.short = loc[p].url.code]}

\* p takes the first step of a request with input in
Begin(p, in) ==
    \/ pc[p] = "idle" /\ Quiet
    \/ /\ pc[p] = "done"
       /\ ~Overlaps(p)
       /\ in \in FollowUps(p)

\* the locals after p's first step: p's are fresh, and remember the answer
\* they follow; a request that p now overlaps no longer follows anything
Fresh(p) ==
    [q \in Procs |->
        IF q = p
        THEN [NoLoc EXCEPT !.prev =
                 IF pc[p] = "done"
                 THEN [req |-> req[p], resp |-> resp[p],
                       single |-> Cardinality(SameTuple(resp[p].url, store)) = 1,
                       stale |-> loc[p].stale]
                 ELSE NoPrev]
        ELSE [loc[q] EXCEPT !.prev = NoPrev]]

Respond(p, r) == /\ resp' = [resp EXCEPT ![p] = r]
                 /\ pc' = [pc EXCEPT ![p] = "done"]

Goto(p, label) == /\ pc' = [pc EXCEPT ![p] = label]
                  /\ resp' = [resp EXCEPT ![p] = NoResp]

ServerError(e) == [status |-> "ServerError", err |-> e, url |-> NoURL]

Init ==
    /\ store = {}
    /\ analytics = [i \in 1..MaxId |-> 0]
    /\ nextId = 1
    /\ now = 0
    /\ pc = [p \in Procs |-> "idle"]
    /\ req = [p \in Procs |-> NoInput]
    /\ loc = [p \in Procs |-> NoLoc]
    /\ resp = [p \in Procs |-> NoResp]

----------------------------------------------------------------------------
(* CreateShortURLHandler: validation accepts the request, the long form is
   normalised and the request goes to the handler of the caller's class *)

CreateRequest(o, l, c, r) ==
    [op |-> "create", owner |-> o, long |-> l, short |-> c, redirect |-> r]

\* long form and redirect of the creation requests: no kind asked for,
\* each of the two kinds, a long form with and without its scheme
CreateForms == {<<<<"http://", "a.com">>, "">>,
                <<<<"http://", "a.com">>, "temporary">>,
                <<<<"", "a.com">>, "permanent">>}

CreateInputs ==
    {CreateRequest(o, f[1], c, f[2]) :
        o \in Users, c \in Codes \cup {""}, f \in CreateForms}

\* a few of them, for the runs with requests in parallel
SomeCreateInputs ==
    {CreateRequest(AnonymousUserID, <<"http://", "a.com">>, "", ""),
     CreateRequest(AnonymousUserID, <<"", "a.com">>, "c1", "temporary"),
     CreateRequest(1, <<"", "a.com">>, "", "temporary"),
     CreateRequest(1, <<"http://", "a.com">>, "c1", "")}

IsAnonymous(owner) == owner = AnonymousUserID

\* (the loop stopping one try early)
maxTriesForInsertionShort(short) ==
    IF short # "" THEN 1 ELSE MaxTriesForInsertion - 1

\* the budget of the retry loop (lines 370-373)
maxTriesForInsertion(short) == IF short # "" THEN 1 ELSE MaxTriesForInsertion

\* (the reuse test inverted)
ReuseExistingInverted(redirectType, existing, redirect) ==
    redirectType # existing.redirect /\ redirect = ""

\* the reuse test of line 361
ReuseExisting(redirectType, existing, redirect) ==
    redirectType = existing.redirect \/ redirect = ""

\* AuthenticatedShortenURLHandler, lines 346-377, no custom code: the dedup
\* lookup, then either the reuse branch or the first candidate
AuthenticatedLookup(p, in) ==
    /\ Begin(p, in)
    /\ ~IsAnonymous(in.owner)
    /\ in.short = ""
    /\ req' = [req EXCEPT ![p] = in]
    /\ LET long == addHTTPPrefix(in.long)
           redirectType == getRedirectCode(in.redirect)
           found == GetByLongURL(long, redirectType, in.owner)
       IN \/ \* the lookup fails
             /\ Respond(p, ServerError("store"))
             /\ loc' = [Fresh(p) EXCEPT ![p].storeFailed = TRUE]
          \/ \E existing \in found :
                /\ ReuseExisting(redirectType, existing, in.redirect)
                /\ loc' = [Fresh(p) EXCEPT ![p].url = existing]
                /\ Goto(p, "reuse")
          \/ /\ \/ found = {}
                \/ \E existing \in found :
                      ~ReuseExisting(redirectType, existing, in.redirect)
             /\ \E code \in Codes :
                   loc' = [Fresh(p) EXCEPT
                             ![p].url = NewURL(long, code, redirectType, in.owner),
                             ![p].retriesLeft = maxTriesForInsertion(in.short)]
             /\ Goto(p, "insert")
    /\ UNCHANGED <<store, analytics, nextId, now>>

\* AuthenticatedShortenURLHandler with a custom code: no lookup
\* (line 351), one try (line 372), the record carries the code (line 375)
AuthenticatedCustom(p, in) ==
    /\ Begin(p, in)
    /\ ~IsAnonymous(in.owner)
    /\ in.short # ""
    /\ req' = [req EXCEPT ![p] = in]
    /\ loc' = [Fresh(p) EXCEPT
                 ![p].url = NewURL(addHTTPPrefix(in.long), in.short,
                                   getRedirectCode(in.redirect), in.owner),
                 ![p].retriesLeft = maxTriesForInsertion(in.short)]
    /\ Goto(p, "insert")
    /\ UNCHANGED <<store, analytics, nextId, now>>

\* the code AnonymousShortenURLHandler gives data.NewURL (line 422)
AnonymousCode(short, generated) == generated

\* AnonymousShortenURLHandler, lines 408-424: the lookup is keyed to the
\* permanent kind whatever the request says, and so is the new record
AnonymousLookup(p, in) ==
    /\ Begin(p, in)
    /\ IsAnonymous(in.owner)
    /\ req' = [req EXCEPT ![p] = in]
    /\ LET long == addHTTPPrefix(in.long)
           found == GetByLongURL(long, StatusPermanentRedirect, in.owner)
       IN \/ /\ Respond(p, ServerError("store"))
             /\ loc' = [Fresh(p) EXCEPT ![p].storeFailed = TRUE]
          \/ \E existing \in found :
                /\ loc' = [Fresh(p) EXCEPT ![p].url = existing]
                /\ Goto(p, "reuse")
          \/ /\ found = {}
             /\ \E code \in Codes :
                   loc' = [Fresh(p) EXCEPT
                             ![p].url = NewURL(long, AnonymousCode(in.short, code),
                                               StatusPermanentRedirect, in.owner),
                             ![p].retriesLeft = MaxTriesForInsertion]
             /\ Goto(p, "insert")
    /\ UNCHANGED <<store, analytics, nextId, now>>

\* the reuse branch, lines 362-365 and 415-418: Modified is refreshed, the
\* result of Update is dropped, the record in hand is the answer
ReuseUpdate(p) ==
    /\ pc[p] = "reuse"
    /\ Quiet
    /\ LET u == [loc[p].url EXCEPT !.modified = now]
       IN /\ \/ /\ ~UpdateConflict(u)
                /\ store' = Update(u)
                /\ loc' = [loc EXCEPT ![p].url = u,
                                      ![p].stale = Stale(u),
                                      ![p].wrote = Update(u) # store]
             \/ \* Update fails
                /\ UNCHANGED store
                /\ loc' = [loc EXCEPT ![p].url = u,
                                      ![p].stale = Stale(u),
                                      ![p].storeFailed = TRUE]
          /\ Respond(p, [status |-> "OK", err |-> "", url |-> u])
    /\ UNCHANGED <<analytics, nextId, now, req>>

\* (the loop without its decrement)
RetriesLeftAfterStuck(retriesLeft) == retriesLeft

\* what the loop does with the budget after a duplicate (line 379)
RetriesLeftAfter(retriesLeft) == retriesLeft - 1

\* the errors Insert can return for u
InsertErrors(u) ==
    {"store"} \cup (IF InsertDuplicate(u) THEN {"ErrDuplicateEntry"} ELSE {})

\* (every error of Insert taken for one the loop goes on after)
AbortsNever(err) == FALSE

\* line 386: an error other than ErrDuplicateEntry ends the request
Aborts(err) == err # "ErrDuplicateEntry"

\* (urlInserted left unset after the Insert that succeeded)
AfterInsertUnflagged(u) == ServerError("ErrMaxCollision")

\* lines 381-384 and 396-401: the answer once Insert has succeeded
AfterInsert(u) == [status |-> "Created", err |-> "", url |-> u]

\* q has looked up the record u is like, found none and not yet called
\* Insert
Races(q, u) ==
    /\ pc[q] = "insert"
    /\ req[q].short = ""
    /\ loc[q].attempts = 0
    /\ SameTuple(loc[q].url, {u}) # {}

\* one turn of the retry loop, lines 379-401 and 426-448
InsertAttempt(p) ==
    /\ pc[p] = "insert"
    /\ Quiet
    /\ LET u == loc[p].url
       IN \/ \* Insert succeeds
             /\ ~InsertDuplicate(u)
             /\ nextId <= MaxId
             /\ store' = Insert(u)
             /\ nextId' = nextId + 1
             /\ loc' = [q \in Procs |->
                          IF q = p
                          THEN [loc[p] EXCEPT !.attempts = @ + 1,
                                              !.tried = u.code,
                                              !.wrote = TRUE,
                                              !.url = [u EXCEPT !.id = nextId]]
                          ELSE [loc[q] EXCEPT
                                  !.raced = @ \/ (req[p].short = "" /\ Races(q, u))]]
             /\ Respond(p, AfterInsert([u EXCEPT !.id = nextId]))
          \/ \E err \in InsertErrors(u) :
                /\ IF Aborts(err)
                   THEN /\ loc' = [loc EXCEPT ![p].attempts = @ + 1,
                                              ![p].tried = u.code,
                                              ![p].storeFailed = TRUE]
                        /\ Respond(p, ServerError(err))
                   ELSE \* a new candidate after ErrDuplicateEntry (line 391),
                        \* one try less
                        /\ \E code \in (IF err = "ErrDuplicateEntry"
                                         THEN Codes ELSE {u.code}) :
                              loc' = [loc EXCEPT
                                        ![p].attempts = @ + 1,
                                        ![p].tried = u.code,
                                        ![p].colls =
                                            IF err = "ErrDuplicateEntry"
                                            THEN @ + 1 ELSE @,
                                        ![p].storeFailed =
                                            @ \/ err # "ErrDuplicateEntry",
                                        ![p].url = Reshorten(u, code),
                                        ![p].retriesLeft = RetriesLeftAfter(@)]
                        /\ IF RetriesLeftAfter(loc[p].retriesLeft) > 0
                           THEN UNCHANGED <<pc, resp>>
                           ELSE Respond(p, ServerError("ErrMaxCollision"))
                /\ UNCHANGED <<store, nextId>>
    /\ UNCHANGED <<analytics, now, req>>

----------------------------------------------------------------------------
(* ExpandURLHandler, lines 527-571 *)

ResolveInputs == {[NoInput EXCEPT !.op = "resolve", !.short = c] : c \in Codes}

\* (no expiry test)
ExpiredNever(u, currentTime) == FALSE

\* (the expiry test with !After in place of Before)
ExpiredAtBoundary(u, currentTime) == u.modified + TTL <= currentTime

\* expiryTime.Before(currentTime), lines 548-550
Expired(u, currentTime) == u.modified + TTL < currentTime

\* (every mapping tracked)
TrackedAlways(u) == TRUE

\* the test of line 555: is an analytics entry recorded for this mapping
Tracked(u) == u.owner # AnonymousUserID

\* (the redirect sent with one fixed status)
RedirectFixed(u) ==
    [status |-> "Redirect", err |-> "",
     url |-> [u EXCEPT !.redirect = StatusTemporaryRedirect]]

\* http.Redirect(w, r, longURL, url.Redirect), line 570
Redirect(u) == [status |-> "Redirect", err |-> "", url |-> u]

NotFound == [status |-> "NotFound", err |-> "", url |-> NoURL]

\* (a failed Analytics.Insert answered as a server error)
AfterAnalyticsStrict(u, failed) ==
    IF failed THEN ServerError("analytics") ELSE Redirect(u)

\* the answer once Analytics.Insert has returned, lines 564-570
AfterAnalytics(u, failed) == Redirect(u)

\* (a resolution that refreshes Modified)
ExpandStoreTouched(u) == Update([u EXCEPT !.modified = now])

\* the URL store after ExpandURLHandler has found u: the handler calls
\* the URL store for the lookup only
ExpandStore(u) == store

\* lines 528-555: the lookup, the empty-target test and the expiry test
ExpandLookup(p, in) ==
    /\ Begin(p, in)
    /\ in.op = "resolve"
    /\ req' = [req EXCEPT ![p] = in]
    /\ \/ \* GetByShort fails
          /\ Respond(p, ServerError("store"))
          /\ loc' = [Fresh(p) EXCEPT ![p].storeFailed = TRUE]
          /\ UNCHANGED store
       \/ /\ GetByShort(in.short) = {}
          /\ Respond(p, NotFound)
          /\ loc' = [Fresh(p) EXCEPT ![p].time = now]
          /\ UNCHANGED store
       \/ \E u \in GetByShort(in.short) :
             /\ store' = ExpandStore(u)
             /\ loc' = [Fresh(p) EXCEPT ![p].url = u, ![p].time = now,
                                        ![p].wrote = ExpandStore(u) # store]
             /\ IF u.long = EmptyString
                THEN Respond(p, NotFound)
                ELSE IF Expired(u, now)
                THEN Respond(p, [status |-> "Expired", err |-> "", url |-> NoURL])
                ELSE IF Tracked(u)
                THEN Goto(p, "analytics")
                ELSE Respond(p, Redirect(u))
    /\ UNCHANGED <<analytics, nextId, now>>

\* lines 556-570: the entry is inserted, a failure is logged, the redirect
\* is sent
ExpandAnalytics(p) ==
    /\ pc[p] = "analytics"
    /\ Quiet
    /\ LET u == loc[p].url
       IN \/ /\ analytics[u.id] < MaxEntries
             /\ analytics' = AnalyticsInsert(u.id)
             /\ loc' = [loc EXCEPT ![p].entries = @ + 1]
             /\ Respond(p, AfterAnalytics(u, FALSE))
          \/ /\ loc' = [loc EXCEPT ![p].entries = @ + 1, ![p].failed = TRUE]
             /\ Respond(p, AfterAnalytics(u, TRUE))
             /\ UNCHANGED analytics
    /\ UNCHANGED <<store, nextId, now, req>>

----------------------------------------------------------------------------
(* EditShortURLHandler, lines 451-503 *)

EditInputs ==
    [op : {"edit"}, owner : {-1}, long : {EmptyString, <<"http://", "a.com">>},
     short : Codes \cup {""}, redirect : Redirects]

SomeEditInputs ==
    [op : {"edit"}, owner : {-1}, long : {EmptyString},
     short : Codes \cup {""}, redirect : {""}]
    \cup {[NoInput EXCEPT !.op = "edit", !.redirect = "temporary"]}

\* lines 473-485: the record of the request context with the supplied
\* fields written over it
Edited(url, in) ==
    [url EXCEPT
        !.long = IF in.long # EmptyString /\ in.long # url.long
                 THEN in.long ELSE @,
        !.code = IF in.short # "" /\ in.short # url.code THEN in.short ELSE @,
        !.redirect = IF in.redirect # "" /\ getRedirectCode(in.redirect) # url.redirect
                     THEN getRedirectCode(in.redirect) ELSE @]

\* updateNeeded as line 486 finds it: set at line 473, and again wherever
\* a field differs
updateNeeded(url, in) ==
    \/ TRUE
    \/ in.long # EmptyString /\ in.long # url.long
    \/ in.short # "" /\ in.short # url.code
    \/ in.redirect # "" /\ getRedirectCode(in.redirect) # url.redirect

\* v.Valid() at line 488, for a request whose fields are well-formed
EditValid(url, in) ==
    /\ in.long # EmptyString \/ in.short # "" \/ in.redirect # ""
    /\ updateNeeded(url, in)

\* lines 452-491: the record comes from the request context, the supplied
\* fields are written over it and the request is validated
EditLoad(p, u, in) ==
    /\ Begin(p, in)
    /\ in.op = "edit"
    /\ u \in store
    /\ req' = [req EXCEPT ![p] = in]
    /\ loc' = [Fresh(p) EXCEPT ![p].url = Edited(u, in),
                               ![p].noop = (Edited(u, in) = u)]
    /\ IF EditValid(u, in)
       THEN Goto(p, "update")
       ELSE Respond(p, [status |-> "FailedValidation", err |-> "",
                        url |-> NoURL])
    /\ UNCHANGED <<store, analytics, nextId, now>>

\* lines 493-502
EditUpdate(p) ==
    /\ pc[p] = "update"
    /\ Quiet
    /\ LET u == [loc[p].url EXCEPT !.modified = now]
       IN \/ /\ ~UpdateConflict(u)
             /\ store' = Update(u)
             /\ loc' = [loc EXCEPT ![p].url = u,
                                   ![p].stale = Stale(u),
                                   ![p].wrote = Update(u) # store]
             /\ Respond(p, [status |-> "Accepted", err |-> "", url |-> u])
          \/ /\ loc' = [loc EXCEPT ![p].url = u,
                                   ![p].stale = Stale(u),
                                   ![p].storeFailed = TRUE]
             /\ Respond(p, ServerError("store"))
             /\ UNCHANGED store
    /\ UNCHANGED <<analytics, nextId, now, req>>

----------------------------------------------------------------------------
(* DeleteShortURLHandler, lines 505-518 *)

DeleteInput == [NoInput EXCEPT !.op = "delete"]

\* line 506: the record comes from the request context
DeleteLoad(p, u, in) ==
    /\ Begin(p, in)
    /\ in.op = "delete"
    /\ u \in store
    /\ req' = [req EXCEPT ![p] = in]
    /\ loc' = [Fresh(p) EXCEPT ![p].url = u]
    /\ Goto(p, "delete")
    /\ UNCHANGED <<store, analytics, nextId, now>>

\* lines 508-513: the record is deleted and the response written
DeleteRecord(p) ==
    /\ pc[p] = "delete"
    /\ Quiet
    /\ \/ /\ store' = DeleteByShort(loc[p].url.code)
          /\ loc' = [loc EXCEPT
                       ![p].wrote = DeleteByShort(loc[p].url.code) # store]
          /\ Goto(p, "cascade")
       \/ /\ Respond(p, ServerError("store"))
          /\ loc' = [loc EXCEPT ![p].storeFailed = TRUE]
          /\ UNCHANGED store
    /\ UNCHANGED <<analytics, nextId, now, req>>

\* lines 514-517: the entries of the mapping are deleted; a failure is
\* logged
DeleteCascade(p) ==
    /\ pc[p] = "cascade"
    /\ Quiet
    /\ \/ /\ analytics' = DeleteByURLID(loc[p].url.id)
          /\ UNCHANGED loc
       \/ /\ loc' = [loc EXCEPT ![p].failed = TRUE]
          /\ UNCHANGED analytics
    /\ Respond(p, [status |-> "NoContent", err |-> "", url |-> NoURL])
    /\ UNCHANGED <<store, nextId, now, req>>

----------------------------------------------------------------------------
(* The clock, and a request slot taking the next request *)

Tick ==
    /\ \E t \in Times :
          /\ t > now
          /\ \A s \in Times : s > now => t <= s
          /\ now' = t
    /\ UNCHANGED <<store, analytics, nextId, pc, req, loc, resp>>

Finish(p) ==
    /\ pc[p] = "done"
    /\ pc' = [pc EXCEPT ![p] = "idle"]
    /\ req' = [req EXCEPT ![p] = NoInput]
    /\ loc' = [loc EXCEPT ![p] = NoLoc]
    /\ resp' = [resp EXCEPT ![p] = NoResp]
    /\ UNCHANGED <<store, analytics, nextId, now>>

\* the steps of the requests of the slots P, over the creation requests
\* CI and the edit requests EI
Requests(P, CI, EI) ==
    \/ \E p \in P, in \in CI : AuthenticatedLookup(p, in)
    \/ \E p \in P, in \in CI : AuthenticatedCustom(p, in)
    \/ \E p \in P, in \in CI : AnonymousLookup(p, in)
    \/ \E p \in P : ReuseUpdate(p)
    \/ \E p \in P : InsertAttempt(p)
    \/ \E p \in P, in \in ResolveInputs : ExpandLookup(p, in)
    \/ \E p \in P : ExpandAnalytics(p)
    \/ \E p \in P, u \in store, in \in EI : EditLoad(p, u, in)
    \/ \E p \in P : EditUpdate(p)
    \/ \E p \in P, u \in store : DeleteLoad(p, u, DeleteInput)
    \/ \E p \in P : DeleteRecord(p)
    \/ \E p \in P : DeleteCascade(p)
    \/ \E p \in P : Finish(p)

\* requests in parallel, within one reading of the clock
Next == Requests(Procs, SomeCreateInputs, SomeEditInputs)

Spec == Init /\ [][Next]_vars

\* requests served one after the other while the clock advances
SerialNext == Requests({"r1"}, CreateInputs, EditInputs) \/ Tick

SerialSpec == Init /\ [][SerialNext]_vars

\* creation requests alone, in parallel
CreateNext ==
    \/ \E p \in Procs, in \in SomeCreateInputs : AuthenticatedLookup(p, in)
    \/ \E p \in Procs, in \in SomeCreateInputs : AuthenticatedCustom(p, in)
    \/ \E p \in Procs, in \in SomeCreateInputs : AnonymousLookup(p, in)
    \/ \E p \in Procs : ReuseUpdate(p)
    \/ \E p \in Procs : InsertAttempt(p)
    \/ \E p \in Procs : Finish(p)

\* every request is served by a goroutine of its own, which the runtime
\* keeps scheduling, and every call of the store returns: a handler that is
\* again and again able to take its next step takes it, and a slot whose
\* answer is written is released
Scheduling ==
    \A p \in Procs :
        /\ SF_vars(ReuseUpdate(p) \/ InsertAttempt(p))
        /\ WF_vars(Finish(p))

FairSpec == Init /\ [][CreateNext]_vars /\ Scheduling

----------------------------------------------------------------------------
(* Properties *)

Done(p, op) == pc[p] = "done" /\ req[p].op = op

Succeeded(r) == r.status \in {"OK", "Created"}

\* C1: no two records of the URL store have the same short code, under any
\* interleaving of creations and edits.
C1_ShortCodeUnique ==
    \A u, v \in store : u.code = v.code => u = v

\* two records are stored, a creation in flight has been refused a code and
\* an edit that supplies a code has just been accepted
C1_Witness ==
    /\ Cardinality(store) = 2
    /\ \E p, q \in Procs :
          /\ req[p].op = "create" /\ InFlight(p) /\ loc[p].colls > 0
          /\ Done(q, "edit") /\ req[q].short # "" /\ resp[q].status = "Accepted"

\* a creation without custom code that succeeded and repeats, at once and
\* overlapping nothing, the creation that succeeded just before it
SameAgain(p) ==
    /\ Done(p, "create")
    /\ req[p].short = ""
    /\ Succeeded(resp[p])
    /\ loc[p].prev.req = req[p]
    /\ Succeeded(loc[p].prev.resp)

Idempotent(p) ==
    /\ resp[p].url.code = loc[p].prev.resp.url.code
    /\ Cardinality(SameTuple(resp[p].url, store)) = 1
    /\ resp[p].status = "OK"
    /\ loc[p].attempts = 0

\* C2 as stated: two successive creations of the same long form by the same
\* owner with the same kind and no custom code return the same short code,
\* the second creates no record and exactly one record with that long form,
\* kind and owner is stored afterwards.
C2_AsStated == \A p \in Procs : SameAgain(p) => Idempotent(p)

\* C2, amended: the same, provided the record the first creation returned
\* is the only one with its long form, kind and owner when the second
\* creation starts.
C2_IdempotentReuse ==
    \A p \in Procs : SameAgain(p) /\ loc[p].prev.single => Idempotent(p)

\* the second of two such creations has been answered with the record of
\* the first
C2_Witness ==
    \E p \in Procs : SameAgain(p) /\ loc[p].prev.single /\ resp[p].status = "OK"

\* C3: a creation without custom code whose first k candidates collide
\* fails with ErrMaxCollision when k is the budget of 3 tries, and otherwise
\* succeeds on Insert number k+1 with the candidate given to that Insert
\* (unless the store fails that Insert for another reason).
C3_CollisionBound ==
    \A p \in Procs :
        Done(p, "create") /\ req[p].short = "" /\ loc[p].attempts > 0 =>
            LET k == loc[p].colls
            IN /\ k <= MaxTriesForInsertion
               /\ k = MaxTriesForInsertion =>
                     /\ resp[p] = ServerError("ErrMaxCollision")
                     /\ loc[p].attempts = k
               /\ k < MaxTriesForInsertion =>
                     /\ loc[p].attempts = k + 1
                     /\ \/ /\ resp[p].status = "Created"
                           /\ resp[p].url.code = loc[p].tried
                           /\ resp[p].url \in store
                        \/ resp[p] = ServerError("store")

\* the third Insert of a creation succeeded after two collisions
C3_Witness ==
    \E p \in Procs :
        /\ Done(p, "create") /\ req[p].short = ""
        /\ loc[p].colls = 2 /\ resp[p].status = "Created"

\* C4 as stated: a creation with a custom code that another record holds
\* fails, after at most the one Insert of that code; nothing is stored under
\* a generated code.
C4_CustomCollisionFails ==
    \A p \in Procs :
        /\ Done(p, "create")
        /\ req[p].short # ""
        /\ \E u \in store : u.code = req[p].short /\ u.id # resp[p].url.id
        => /\ resp[p].status = "ServerError"
           /\ loc[p].attempts <= 1
           /\ loc[p].attempts = 1 => loc[p].tried = req[p].short

\* C5 as stated: a creation with a custom code that succeeds returns, and
\* has stored, the record with that code, whoever the owner is.
C5_CustomCodeKept ==
    \A p \in Procs :
        Done(p, "create") /\ req[p].short # "" /\ Succeeded(resp[p]) =>
            /\ resp[p].url.code = req[p].short
            /\ loc[p].attempts > 0 => loc[p].tried = req[p].short

\* C6: the resolution of an existing mapping redirects when the time since
\* modified_at is at most the TTL, the TTL itself included, and answers
\* Expired when it is more.
C6_ExpiryBoundary ==
    \A p \in Procs :
        Done(p, "resolve") /\ loc[p].url # NoURL =>
            /\ loc[p].time - loc[p].url.modified <= TTL
                  => resp[p].status = "Redirect"
            /\ loc[p].time - loc[p].url.modified > TTL
                  => resp[p].status = "Expired"

\* a mapping modified exactly one TTL ago has been resolved
C6_Witness ==
    \E p \in Procs :
        /\ Done(p, "resolve") /\ loc[p].url # NoURL
        /\ loc[p].time - loc[p].url.modified = TTL
        /\ resp[p].status = "Redirect"

\* C7: the resolution of a mapping of the anonymous owner makes no
\* analytics entry; a resolution that redirects to a mapping of a user has
\* called Analytics.Insert exactly once, for that mapping's id.
C7_AnonymousOpacity ==
    /\ \A u \in store : u.owner = AnonymousUserID => analytics[u.id] = 0
    /\ \A p \in Procs :
          Done(p, "resolve") =>
             /\ loc[p].url.owner = AnonymousUserID => loc[p].entries = 0
             /\ resp[p].status = "Redirect" /\ loc[p].url.owner # AnonymousUserID
                   => /\ loc[p].entries = 1
                      /\ ~loc[p].failed => analytics[loc[p].url.id] > 0

\* an anonymous mapping has been resolved while the mapping of a user has
\* an entry
C7_Witness ==
    /\ \E i \in 1..MaxId : analytics[i] > 0
    /\ \E p \in Procs :
          /\ Done(p, "resolve") /\ resp[p].status = "Redirect"
          /\ loc[p].url.owner = AnonymousUserID

\* C8 as stated: once a delete has run to its end, no analytics entry of
\* the mapping is left and its code no longer resolves to it.
C8_DeletionCascade ==
    \A p \in Procs :
        Done(p, "delete") /\ resp[p].status = "NoContent" =>
            /\ analytics[loc[p].url.id] = 0
            /\ \A u \in GetByShort(loc[p].url.code) : u.id # loc[p].url.id

\* a resolution that follows at once, overlapping nothing, a creation that
\* succeeded and asked for a kind, of the code the creation returned, while
\* the mapping stored under the code is within its TTL
RoundTrip(p) ==
    /\ Done(p, "resolve")
    /\ loc[p].prev.req.op = "create"
    /\ loc[p].prev.req.redirect # ""
    /\ Succeeded(loc[p].prev.resp)
    /\ req[p].short = loc[p].prev.resp.url.code
    /\ \A u \in GetByShort(req[p].short) : loc[p].time <= u.modified + TTL
    /\ resp[p].status # "ServerError"

\* C9 as stated: such a resolution redirects to the long form submitted,
\* with the status of the kind asked for.
C9_AsStated ==
    \A p \in Procs :
        RoundTrip(p) =>
            /\ resp[p].status = "Redirect"
            /\ resp[p].url.long = loc[p].prev.req.long
            /\ resp[p].url.redirect = getRedirectCode(loc[p].prev.req.redirect)

\* C9, amended: such a resolution redirects to the long form submitted with
\* "http://" put before it when it had no scheme; the status is that of the
\* kind asked for when the owner is a user, and the permanent one when the
\* owner is anonymous.
C9_RoundTrip ==
    \A p \in Procs :
        RoundTrip(p) =>
            /\ resp[p].status = "Redirect"
            /\ resp[p].url.long = addHTTPPrefix(loc[p].prev.req.long)
            /\ resp[p].url.redirect =
                  IF IsAnonymous(loc[p].prev.req.owner)
                  THEN StatusPermanentRedirect
                  ELSE IF loc[p].prev.req.redirect = "temporary"
                  THEN StatusTemporaryRedirect
                  ELSE StatusPermanentRedirect

\* a user's creation that asked for the temporary kind has been resolved
\* one TTL after it
C9_Witness ==
    \E p \in Procs :
        /\ RoundTrip(p)
        /\ ~IsAnonymous(loc[p].prev.req.owner)
        /\ loc[p].prev.req.redirect = "temporary"
        /\ loc[p].time = loc[p].prev.resp.url.modified + TTL

\* C10: a resolution that has called Analytics.Insert ends with the
\* redirect to the mapping it looked up, whether the call failed or not.
C10_AnalyticsFailureSwallowed ==
    \A p \in Procs :
        Done(p, "resolve") /\ loc[p].entries > 0 =>
            resp[p] = [status |-> "Redirect", err |-> "", url |-> loc[p].url]

\* a resolution whose Analytics.Insert failed has redirected
C10_Witness ==
    \E p \in Procs :
        /\ Done(p, "resolve") /\ loc[p].failed
        /\ resp[p].status = "Redirect"

\* C11 as stated: a create, edit or resolve request in which a call of the
\* URL store returned an error other than a duplicate ends with an error
\* response, never with a success.
C11_StoreErrorSurfaced ==
    \A p \in Procs :
        /\ pc[p] = "done"
        /\ req[p].op \in {"create", "edit", "resolve"}
        /\ loc[p].storeFailed
        => resp[p].status = "ServerError"

\* a resolution that follows at once an edit or a reusing creation that
\* found the record past its TTL and succeeded, of the code of the record
\* they answered with, no later than one TTL after the Modified of that
\* record
AfterMutation(p) ==
    /\ Done(p, "resolve")
    /\ loc[p].prev.stale
    /\ \/ loc[p].prev.req.op = "edit" /\ loc[p].prev.resp.status = "Accepted"
       \/ loc[p].prev.req.op = "create" /\ loc[p].prev.resp.status = "OK"
    /\ req[p].short = loc[p].prev.resp.url.code
    /\ loc[p].time <= loc[p].prev.resp.url.modified + TTL
    /\ resp[p].status # "ServerError"

\* C13 as stated: after an edit of an expired mapping, or a creation that
\* reuses it, has succeeded at time t, a resolution of its code at a time
\* in [t, t + TTL] redirects.
C13_MutationResetsExpiry ==
    \A p \in Procs : AfterMutation(p) => resp[p].status = "Redirect"

\* C14: a resolution, whatever its outcome, has not changed the URL store.
C14_ResolveLeavesStore ==
    \A p \in Procs : req[p].op = "resolve" => ~loc[p].wrote

\* a mapping modified earlier has been resolved, with a redirect, and is
\* stored as it was found
C14_Witness ==
    \E p \in Procs :
        /\ Done(p, "resolve") /\ resp[p].status = "Redirect"
        /\ loc[p].time > loc[p].url.modified
        /\ loc[p].url \in store

\* C15: the resolution of a mapping that exists and whose TTL has elapsed
\* answers Expired, which is neither NotFound nor a redirect, and calls
\* Analytics.Insert for no owner.
C15_ExpiredOutcome ==
    \A p \in Procs :
        /\ Done(p, "resolve")
        /\ loc[p].url # NoURL
        /\ loc[p].time > loc[p].url.modified + TTL
        => /\ resp[p] = [status |-> "Expired", err |-> "", url |-> NoURL]
           /\ resp[p] # NotFound
           /\ loc[p].entries = 0
           /\ ~loc[p].failed

\* the mapping of a user has been resolved after its TTL
C15_Witness ==
    \E p \in Procs :
        /\ Done(p, "resolve")
        /\ loc[p].url.owner # AnonymousUserID /\ loc[p].url # NoURL
        /\ loc[p].time > loc[p].url.modified + TTL
        /\ resp[p].status = "Expired"

\* C16: once Insert has returned an error other than a duplicate, the
\* creation has ended with that error: that Insert was its last, the code
\* was not replaced and the answer is not ErrMaxCollision.
C16_InsertErrorAborts ==
    \A p \in Procs :
        req[p].op = "create" /\ loc[p].storeFailed /\ loc[p].attempts > 0 =>
            /\ pc[p] = "done"
            /\ resp[p] = ServerError("store")
            /\ loc[p].attempts = loc[p].colls + 1
            /\ loc[p].url.code = loc[p].tried

\* the second Insert of a creation failed with two tries left
C16_Witness ==
    \E p \in Procs :
        /\ Done(p, "create") /\ loc[p].storeFailed
        /\ loc[p].attempts = 2 /\ loc[p].retriesLeft = 2
        /\ resp[p].err = "store"

\* the Insert calls the handler of p allows itself: one when the record
\* carries the caller's code, three when its code is generated
MaxAttempts(p) ==
    IF req[p].short # "" /\ ~IsAnonymous(req[p].owner)
    THEN 1 ELSE MaxTriesForInsertion

CreateOutcome(p) ==
    \/ resp[p].status = "Created" /\ loc[p].attempts > 0
    \/ resp[p].status = "OK" /\ loc[p].attempts = 0
    \/ resp[p] = ServerError("ErrMaxCollision")
    \/ resp[p] = ServerError("store")

Raced(p) == Done(p, "create") /\ req[p].short = "" /\ loc[p].raced

\* C17: two creations of one long form, kind and owner without custom code
\* can both look up before either inserts; the later one is then not
\* answered with the record of the earlier, and the record it inserts has
\* a short code of its own.
C17_RacingCreations ==
    \A p \in Procs :
        Raced(p) =>
            /\ resp[p].status # "OK"
            /\ resp[p].status = "Created" =>
                  /\ resp[p].url \in store
                  /\ \A v \in SameTuple(resp[p].url, store) :
                        v # resp[p].url => v.code # resp[p].url.code

\* both records of such a race are stored: same long form, kind and owner,
\* different short codes
C17_Witness ==
    \E p \in Procs :
        /\ Raced(p) /\ resp[p].status = "Created"
        /\ \E v \in SameTuple(resp[p].url, store) : v.code # resp[p].url.code

\* C18 as stated: whenever no request is in flight, every analytics entry
\* belongs to a mapping that is stored.
C18_AnalyticsIntegrity ==
    (\A p \in Procs : ~InFlight(p)) =>
        \A i \in 1..MaxId : analytics[i] > 0 => \E u \in store : u.id = i

\* C19 as stated: an edit that supplies a field and whose supplied fields
\* all equal the mapping's values is refused as a validation failure and
\* has changed nothing in the store.
C19_NothingToUpdate ==
    \A p \in Procs :
        /\ Done(p, "edit")
        /\ loc[p].noop
        /\ req[p].long # EmptyString \/ req[p].short # "" \/ req[p].redirect # ""
        => /\ resp[p].status = "FailedValidation"
           /\ ~loc[p].wrote

\* C20: a creation that ended in failure has not changed the URL store.
C20_FailedCreateLeavesStore ==
    \A p \in Procs :
        Done(p, "create") /\ resp[p].status = "ServerError" =>
            /\ ~loc[p].wrote
            /\ \A u \in store : u.id # loc[p].url.id

\* a creation has ended with ErrMaxCollision, its tries refused by the
\* records stored
C20_Witness ==
    \E p \in Procs :
        /\ Done(p, "create") /\ resp[p].err = "ErrMaxCollision"
        /\ loc[p].colls > 0
        /\ store # {}

====
